---- MODULE Spec2Model ----
(***************************************************************************)
(* JamScribe: the persisted upload-retry queue of jamscribe_module.tsx     *)
(* (fileSaver.writeFile, retryPendingUploads and its two timers) and the   *)
(* upload dispatcher of upload_service (uploadFileInternal).               *)
(*                                                                         *)
(* JavaScript runs one handler at a time: a handler runs from its start to *)
(* its next await without interruption.  Each action below is one such     *)
(* segment: a timer callback up to its first awaited upload, or the        *)
(* continuation after an awaited upload settles up to the next await.      *)
(*                                                                         *)
(* Time is Date.now() in milliseconds.  The instants the model visits are  *)
(* process start (0) and the due times of the two timers; everything else  *)
(* (a writeFile call, an upload settling, a configuration change) happens  *)
(* at one of these instants, before or after the timer callback.           *)
(*                                                                         *)
(* The recorder (MidiRecorderImpl) has its own state and its own clock,    *)
(* performance.now().  It is studied on its own under RecorderSpec, with   *)
(* the upload queue at rest, as the queue is studied under Spec with the   *)
(* recorder at rest: the two meet only in fileSaver.writeFile.             *)
(***************************************************************************)
EXTENDS Integers, Sequences, FiniteSets, TLC

\* ---------------------------------------------------------------- constants

\* const MAX_ATTEMPTS = 10
MAX_ATTEMPTS == 10

\* setInterval(..., 60 * 1000)
RETRY_INTERVAL_MS == 60000

\* setTimeout(..., 5000)
STARTUP_DELAY_MS == 5000

\* backoffMinutes * 60 * 1000
MS_PER_MINUTE == 60000

\* ------------------------------------------------------------------- bounds

\* Periods of the retry interval the clock runs through.
MaxPeriods == 1

\* Upload jobs in all: the entries a previous run left in the persisted queue
\* plus the files (MIDI, rendered audio) that writeFile uploads in this run.
MaxUploads == 2

\* A configured uploader URL, and the unset one of initialRecordingConfig.
URL == "https://uploader"
NoUrl == ""
Urls == {NoUrl, URL}

\* Failure messages of a retried upload, and of a file's first upload (the
\* message a persisted entry carries too).
Errors == {"e1", "e2"}
FirstErrors == {"e1"}

\* attempts of an entry persisted by a previous run: one or two failures away
\* from the ceiling (entries with attempts = 1 come from this run's writeFile).
PersistedAttempts == {MAX_ATTEMPTS - 2, MAX_ATTEMPTS - 1}

VARIABLES
    now,             \* Date.now()
    startupPending,  \* the 5 s setTimeout has not fired yet
    nextInterval,    \* when the setInterval callback fires next
    uploaderUrl,     \* recordingConfig.getState().uploaderUrl
    pendingUploads,  \* pendingUploads.getState(): PendingUpload[]
    sweeps,          \* executions of retryPendingUploads awaiting an upload
    writes,          \* executions of fileSaver.writeFile awaiting an upload
    jobCount,        \* upload jobs so far; a job's number serves as its uploadId
    delivered,       \* ids logged "Successfully uploaded ... after n attempts"
    abandoned        \* ids logged "Max retry attempts reached ..., removing"

\* The recorder: MidiRecorderImpl, its timers and what it has flushed.
VARIABLES
    time,                        \* performance.now()
    inactivityTimeLimitSeconds,  \* recordingConfigState.getState()'s
    deviceActivity,              \* this.deviceActivity
    deviceTimeouts,              \* this.deviceTimeouts: the last handle
    recordedEvents,              \* this.recordedEvents
    timers,                      \* setTimeout callbacks not yet run or cleared
    eventCount,                  \* MIDI events so far; numbers events, handles
    stops,                       \* calls of stopRecordingForAllDevices so far
    flushes,                     \* buffers handed to saveRecordedMidiToFile
    writing                      \* fileSaver.writeFile promises not yet settled

\* The log channel of the module, shown to the user.
VARIABLES
    logMessages                  \* logMessages.getState(): LogMessage[]

\* The encoder: the loop of saveRecordedMidiToFile that turns a device's list
\* into a track, and calculateDeltaTime called on its own.
VARIABLES
    midiEvents,                  \* the list the loop runs over
    midiData,                    \* what it builds; no track before it has run
    deltaCall                    \* a call of calculateDeltaTime and its result

uploadVars ==
    <<now, startupPending, nextInterval, uploaderUrl, pendingUploads, sweeps,
      writes, jobCount, delivered, abandoned>>

recorderVars ==
    <<time, inactivityTimeLimitSeconds, deviceActivity, deviceTimeouts,
      recordedEvents, timers, eventCount, stops, flushes, writing>>

encoderVars == <<midiEvents, midiData, deltaCall>>

vars == <<uploadVars, recorderVars, encoderVars, logMessages>>

\* ------------------------------------------------------------------ helpers

\* Math.pow(2, n) for the exponents the queue produces (attempts >= 1).
RECURSIVE Pow2(_)
Pow2(n) == IF n <= 0 THEN 1 ELSE 2 * Pow2(n - 1)

RemoveAt(s, k) == SubSeq(s, 1, k - 1) \o SubSeq(s, k + 1, Len(s))

\* ------------------------------------------------------- upload dispatcher

\* uploadFileInternal: with no uploader URL it logs and returns at once,
\* without a request; otherwise the multipart exchange is under way and
\* settles later, resolved or rejected.
UploadStarts(uploaderUrl_) == uploaderUrl_ # NoUrl

\* ------------------------------------------------------------- retry queue

\* Faulty variant: the new entry counts retries, not attempts, and so starts at 0.
NewPendingUpload_CountsRetries(uploadId, fileName, contentType, t, err) ==
    [id |-> uploadId, fileName |-> fileName, contentType |-> contentType,
     attempts |-> 0, lastAttemptTime |-> t, error |-> err]

\* The PendingUpload that writeFile appends after a failed first upload.
NewPendingUpload(uploadId, fileName, contentType, t, err) ==
    [id |-> uploadId, fileName |-> fileName, contentType |-> contentType,
     attempts |-> 1, lastAttemptTime |-> t, error |-> err]

\* Faulty variant: the catch block queues the job twice.
Enqueue_Twice(uploads, entry) == Append(Append(uploads, entry), entry)

\* pendingUploads.setState(uploads => [...uploads, entry])
Enqueue(uploads, entry) == Append(uploads, entry)

\* fileName.replace('.mid', '.wav')
AudioFileName(fileName) ==
    IF fileName.ext = ".mid" THEN [fileName EXCEPT !.ext = ".wav"] ELSE fileName

backoffMinutes(upload) == Pow2(upload.attempts - 1)

backoffMs(upload) == backoffMinutes(upload) * MS_PER_MINUTE

nextAttemptTime(upload) == upload.lastAttemptTime + backoffMs(upload)

\* Faulty variant: the backoff test excludes the boundary (now <= nextAttemptTime).
Skipped_ExclusiveBoundary(upload, sweepNow) ==
    sweepNow <= nextAttemptTime(upload) \/ upload.attempts >= MAX_ATTEMPTS

\* Faulty variant: the backoff test is left out, only the attempt ceiling
\* holds an entry back.
Skipped_BackoffIgnored(upload, sweepNow) == upload.attempts >= MAX_ATTEMPTS

\* if (now < nextAttemptTime || upload.attempts >= MAX_ATTEMPTS) continue
Skipped(upload, sweepNow) ==
    sweepNow < nextAttemptTime(upload) \/ upload.attempts >= MAX_ATTEMPTS

\* Faulty variant: the sweep does not test the URL before it uploads.
NoDestination_Unchecked(uploaderUrl_) == FALSE

\* if (!uploaderUrl) continue
NoDestination(uploaderUrl_) == uploaderUrl_ = NoUrl

\* The for loop of retryPendingUploads from index i on, up to its next await:
\* the index of the entry whose upload it starts, or 0 when the loop ends.
RECURSIVE NextAwait(_, _, _, _)
NextAwait(uploads, sweepNow, i, uploaderUrl_) ==
    IF i > Len(uploads) THEN 0
    ELSE IF Skipped(uploads[i], sweepNow)
         THEN NextAwait(uploads, sweepNow, i + 1, uploaderUrl_)
    ELSE IF NoDestination(uploaderUrl_)
         THEN NextAwait(uploads, sweepNow, i + 1, uploaderUrl_)
    ELSE i

\* The entry a sweep is at: upload of "for (const upload of uploads)", an
\* element of the snapshot the sweep read when it started.
Upload(sw) == sw.uploads[sw.i]

\* Faulty variant: the filter runs over the sweep's snapshot (the outer "uploads")
\* instead of the state handed to the updater.
RemoveUpload_FromSnapshot(uploads, sw) ==
    SelectSeq(sw.uploads, LAMBDA u : u.id # Upload(sw).id)

\* Faulty variant: the filter keeps the uploaded entry and drops the others
\* (u.id === upload.id).
RemoveUpload_KeepsMatch(uploads, sw) ==
    SelectSeq(uploads, LAMBDA u : u.id = Upload(sw).id)

\* pendingUploads.setState(uploads => uploads.filter(u => u.id !== upload.id))
RemoveUpload(uploads, sw) ==
    SelectSeq(uploads, LAMBDA u : u.id # Upload(sw).id)

\* Faulty variant: an entry the queue no longer holds is put back from the
\* sweep's snapshot.
RecordFailure_PutsBack(uploads, sw, err) ==
    LET failed(u) == [u EXCEPT !.attempts = u.attempts + 1,
                               !.lastAttemptTime = sw.now,
                               !.error = err]
    IN  IF \E k \in 1..Len(uploads) : uploads[k].id = Upload(sw).id
        THEN [k \in 1..Len(uploads) |->
                 IF uploads[k].id = Upload(sw).id
                 THEN failed(uploads[k]) ELSE uploads[k]]
        ELSE Append(uploads, failed(Upload(sw)))

\* Faulty variant: the failure is stamped with the time it is handled (Date.now())
\* instead of the sweep's now.
RecordFailure_WallClock(uploads, sw, err) ==
    [k \in 1..Len(uploads) |->
        LET u == uploads[k]
        IN  IF u.id = Upload(sw).id
            THEN [u EXCEPT !.attempts = u.attempts + 1,
                           !.lastAttemptTime = now,
                           !.error = err]
            ELSE u]

\* Faulty variant: the failure is written back from the snapshot's entry ({...upload})
\* instead of the current one ({...u}).
RecordFailure_FromSnapshot(uploads, sw, err) ==
    [k \in 1..Len(uploads) |->
        LET u == uploads[k]
        IN  IF u.id = Upload(sw).id
            THEN [Upload(sw) EXCEPT !.attempts = Upload(sw).attempts + 1,
                                    !.lastAttemptTime = sw.now,
                                    !.error = err]
            ELSE u]

\* pendingUploads.setState(uploads => uploads.map(u => u.id === upload.id
\*     ? {...u, attempts: u.attempts + 1, lastAttemptTime: now, error} : u))
RecordFailure(uploads, sw, err) ==
    [k \in 1..Len(uploads) |->
        LET u == uploads[k]
        IN  IF u.id = Upload(sw).id
            THEN [u EXCEPT !.attempts = u.attempts + 1,
                           !.lastAttemptTime = sw.now,
                           !.error = err]
            ELSE u]

\* if (upload.attempts + 1 >= MAX_ATTEMPTS)
MaxAttemptsReached(sw) == Upload(sw).attempts + 1 >= MAX_ATTEMPTS

\* The catch block of retryPendingUploads.
AfterFailure(uploads, sw, err) ==
    LET updated == RecordFailure(uploads, sw, err)
    IN  IF MaxAttemptsReached(sw) THEN RemoveUpload(updated, sw) ELSE updated

\* ----------------------------------------------------------- the recorder

\* inactivityTimeLimitSeconds of initialRecordingConfig.
DEFAULT_LIMIT_SECONDS == 60

\* this.getInactivityLimit(): seconds * 1000
MS_PER_SECOND == 1000

\* An object with no keys, and obj[key] = value.
EmptyObject == [k \in {} |-> 0]

Put(obj, key, value) ==
    [k \in DOMAIN obj \cup {key} |-> IF k = key THEN value ELSE obj[k]]

\* The fields of a new MidiRecorderImpl; no event seen, no timer set.
RecorderConstructed ==
    /\ time = 0
    /\ deviceActivity = EmptyObject
    /\ deviceTimeouts = EmptyObject
    /\ recordedEvents = EmptyObject
    /\ timers = {}
    /\ eventCount = 0
    /\ stops = 0
    /\ flushes = {}
    /\ writing = {}

\* No list has been handed to the encoder, calculateDeltaTime is not called.
NoData == [tracks |-> <<>>]

NoCall == [returned |-> <<>>]

EncoderAtRest ==
    /\ midiEvents = <<>>
    /\ midiData = NoData
    /\ deltaCall = NoCall

\* --------------------------------------------------------------------- Init

\* An entry a previous run left behind: its backoff ended by the time this
\* process starts.
PersistedUpload(k, a) ==
    [id |-> k, fileName |-> [base |-> k, ext |-> ".mid"],
     contentType |-> "audio/midi", attempts |-> a,
     lastAttemptTime |-> 0 - Pow2(a - 1) * MS_PER_MINUTE,
     error |-> "e1"]

PersistedQueues ==
    UNION {
        {[k \in 1..n |-> PersistedUpload(k, c[k])] :
            c \in [1..n -> PersistedAttempts]} :
        n \in 0..MaxUploads}

Init ==
    /\ now = 0
    /\ startupPending = TRUE
    /\ nextInterval = RETRY_INTERVAL_MS
    /\ uploaderUrl \in Urls
    /\ pendingUploads \in PersistedQueues
    /\ sweeps = <<>>
    /\ writes = <<>>
    /\ jobCount = Len(pendingUploads)
    /\ delivered = {}
    /\ abandoned = {}
    /\ inactivityTimeLimitSeconds = DEFAULT_LIMIT_SECONDS
    /\ RecorderConstructed
    /\ EncoderAtRest
    /\ logMessages = <<>>

\* ------------------------------------------------------------------ actions

\* Time passes to the next instant a timer is due.
Tick ==
    /\ ~(startupPending /\ now >= STARTUP_DELAY_MS)
    /\ now < nextInterval
    /\ LET due == IF startupPending THEN STARTUP_DELAY_MS ELSE nextInterval
       IN  /\ due <= MaxPeriods * RETRY_INTERVAL_MS
           /\ now' = due
    /\ UNCHANGED <<startupPending, nextInterval, uploaderUrl, pendingUploads,
                   sweeps, writes, jobCount, delivered, abandoned, logMessages>>

\* actions.submitUploaderUrl: the draft's URL becomes the configured one.
submitUploaderUrl(url) ==
    /\ url # uploaderUrl
    /\ uploaderUrl' = url
    /\ UNCHANGED <<now, startupPending, nextInterval, pendingUploads, sweeps,
                   writes, jobCount, delivered, abandoned, logMessages>>

\* retryPendingUploads from its start to its first await (or its end).
retryPendingUploads ==
    LET uploads == pendingUploads
        to == NextAwait(uploads, now, 1, uploaderUrl)
    IN  /\ sweeps' = IF to = 0 THEN sweeps
                     ELSE Append(sweeps, [uploads |-> uploads, now |-> now,
                                          i |-> to, uploaderUrl |-> uploaderUrl])
        /\ UNCHANGED <<uploaderUrl, pendingUploads, writes, jobCount, delivered,
                       abandoned, logMessages>>

\* The setInterval callback.
retryInterval ==
    /\ now = nextInterval
    /\ nextInterval' = nextInterval + RETRY_INTERVAL_MS
    /\ retryPendingUploads
    /\ UNCHANGED <<now, startupPending>>

\* The setTimeout callback, 5 s after startup.
startupRetry ==
    /\ startupPending
    /\ now = STARTUP_DELAY_MS
    /\ startupPending' = FALSE
    /\ retryPendingUploads
    /\ UNCHANGED <<now, nextInterval>>

\* Faulty variant: the loop is left after the first awaited entry (the
\* try/catch around the loop instead of inside it).
ContinueSweep_Ends(s) == RemoveAt(sweeps, s)

\* The loop of sweep s goes on after the entry it awaited.
ContinueSweep(s) ==
    LET sw == sweeps[s]
        to == NextAwait(sw.uploads, sw.now, sw.i + 1, uploaderUrl)
    IN  IF to = 0 THEN RemoveAt(sweeps, s)
        ELSE [sweeps EXCEPT ![s].i = to, ![s].uploaderUrl = uploaderUrl]

\* await uploadFileFromPath(...) resolves in sweep s: the file was read and
\* the upload went through.
retrySucceeds(s) ==
    LET sw == sweeps[s]
    IN  /\ pendingUploads' = RemoveUpload(pendingUploads, sw)
        /\ delivered' = delivered \cup {Upload(sw).id}
        /\ sweeps' = ContinueSweep(s)
        /\ UNCHANGED <<now, startupPending, nextInterval, uploaderUrl, writes,
                       jobCount, abandoned, logMessages>>

\* await uploadFileFromPath(...) rejects in sweep s: reading the file or a
\* step of the upload threw.
retryFails(s, err) ==
    LET sw == sweeps[s]
    IN  /\ pendingUploads' = AfterFailure(pendingUploads, sw, err)
        /\ abandoned' = IF MaxAttemptsReached(sw)
                        THEN abandoned \cup {Upload(sw).id} ELSE abandoned
        /\ sweeps' = ContinueSweep(s)
        /\ UNCHANGED <<now, startupPending, nextInterval, uploaderUrl, writes,
                       jobCount, delivered, logMessages>>

\* Upload jobs of one writeFile call: the MIDI file, and the rendered audio
\* file when the conversion produced one.
JobsOf(hasAudio) == IF hasAudio THEN 2 ELSE 1

\* fileSaver.writeFile from reading the configuration to its first awaited
\* upload: the MIDI file's, or nothing to wait for when no request is made.
writeFile(hasAudio) ==
    /\ jobCount + JobsOf(hasAudio) <= MaxUploads
    /\ jobCount' = jobCount + JobsOf(hasAudio)
    /\ writes' =
          IF UploadStarts(uploaderUrl)
          THEN Append(writes, [fileName |-> [base |-> jobCount + 1, ext |-> ".mid"],
                               uploaderUrl |-> uploaderUrl,
                               hasAudio |-> hasAudio, job |-> "audio/midi"])
          ELSE writes
    /\ UNCHANGED <<now, startupPending, nextInterval, uploaderUrl,
                   pendingUploads, sweeps, delivered, abandoned, logMessages>>

\* writeFile w after the upload it awaited: on to the audio file, or done.
ContinueWrite(w) ==
    LET wr == writes[w]
    IN  IF wr.job = "audio/midi" /\ wr.hasAudio /\ UploadStarts(wr.uploaderUrl)
        THEN [writes EXCEPT ![w].job = "audio/wav"]
        ELSE RemoveAt(writes, w)

JobFileName(wr) ==
    IF wr.job = "audio/midi" THEN wr.fileName ELSE AudioFileName(wr.fileName)

\* uploadId: unique per queued job.
UploadId(wr) ==
    IF wr.job = "audio/midi" THEN wr.fileName.base ELSE wr.fileName.base + 1

\* await uploadFile(...) resolves in writeFile w.
uploadSucceeds(w) ==
    /\ writes' = ContinueWrite(w)
    /\ UNCHANGED <<now, startupPending, nextInterval, uploaderUrl,
                   pendingUploads, sweeps, jobCount, delivered, abandoned,
                   logMessages>>

\* await uploadFile(...) rejects in writeFile w: the catch block queues it.
uploadFails(w, err) ==
    LET wr == writes[w]
    IN  /\ pendingUploads' =
              Enqueue(pendingUploads,
                      NewPendingUpload(UploadId(wr), JobFileName(wr), wr.job,
                                       now, err))
        /\ writes' = ContinueWrite(w)
        /\ UNCHANGED <<now, startupPending, nextInterval, uploaderUrl, sweeps,
                       jobCount, delivered, abandoned, logMessages>>

Next ==
    \/ Tick /\ UNCHANGED <<recorderVars, encoderVars>>
    \/ \E url \in Urls : submitUploaderUrl(url) /\ UNCHANGED <<recorderVars, encoderVars>>
    \/ retryInterval /\ UNCHANGED <<recorderVars, encoderVars>>
    \/ startupRetry /\ UNCHANGED <<recorderVars, encoderVars>>
    \/ \E s \in 1..Len(sweeps) : retrySucceeds(s) /\ UNCHANGED <<recorderVars, encoderVars>>
    \/ \E s \in 1..Len(sweeps), err \in Errors :
           retryFails(s, err) /\ UNCHANGED <<recorderVars, encoderVars>>
    \/ \E hasAudio \in BOOLEAN : writeFile(hasAudio) /\ UNCHANGED <<recorderVars, encoderVars>>
    \/ \E w \in 1..Len(writes) : uploadSucceeds(w) /\ UNCHANGED <<recorderVars, encoderVars>>
    \/ \E w \in 1..Len(writes), err \in FirstErrors :
           uploadFails(w, err) /\ UNCHANGED <<recorderVars, encoderVars>>

Spec == Init /\ [][Next]_vars

\* --------------------------------------------------- the recorder's steps

\* Devices that send MIDI events (midiEventFull.deviceInfo.name).
Devices == {"keys", "pads"}

\* Values of inactivityTimeLimitSeconds the user submits.
Limits == {1, 2}

\* MIDI events in all, and seconds the recorder's clock runs through.
MaxEvents == 3
MaxSeconds == 4

\* The upload queue as a fresh installation has it, nothing under way.
UploadsAtRest ==
    /\ now = 0
    /\ startupPending = TRUE
    /\ nextInterval = RETRY_INTERVAL_MS
    /\ uploaderUrl = NoUrl
    /\ pendingUploads = <<>>
    /\ sweeps = <<>>
    /\ writes = <<>>
    /\ jobCount = 0
    /\ delivered = {}
    /\ abandoned = {}

RecorderInit ==
    /\ UploadsAtRest
    /\ inactivityTimeLimitSeconds \in Limits
    /\ RecorderConstructed
    /\ EncoderAtRest
    /\ logMessages = <<>>

\* Faulty variant: the pending timers are moved to the new limit.
submitInactivityTimeLimit_MovesTimers(limit) ==
    /\ limit # inactivityTimeLimitSeconds
    /\ inactivityTimeLimitSeconds' = limit
    /\ timers' = {[t EXCEPT !.due = t.due
                      + (limit - inactivityTimeLimitSeconds) * MS_PER_SECOND] :
                    t \in timers}
    /\ UNCHANGED <<time, deviceActivity, deviceTimeouts, recordedEvents,
                   eventCount, stops, flushes, writing, logMessages>>

\* actions.submitInactivityTimeLimit: the draft's limit becomes the
\* configured one.
submitInactivityTimeLimit(limit) ==
    /\ limit # inactivityTimeLimitSeconds
    /\ inactivityTimeLimitSeconds' = limit
    /\ UNCHANGED <<time, deviceActivity, deviceTimeouts, recordedEvents,
                   timers, eventCount, stops, flushes, writing, logMessages>>

\* The clock moves on by a second; a timer that is due runs first.
TimePasses ==
    /\ time < MaxSeconds * MS_PER_SECOND
    /\ \A t \in timers : t.due > time
    /\ time' = time + MS_PER_SECOND
    /\ UNCHANGED <<inactivityTimeLimitSeconds, deviceActivity, deviceTimeouts,
                   recordedEvents, timers, eventCount, stops, flushes, writing,
                   logMessages>>

\* this.recordingConfigState.getState().inactivityTimeLimitSeconds * 1000
getInactivityLimit == inactivityTimeLimitSeconds * MS_PER_SECOND

\* Faulty variant: the previous timer is left to run.
clearTimeout_Ignored(pending, handle) == pending

\* clearTimeout(handle): the callback will not run; nothing happens for a
\* handle whose callback has run already.
clearTimeout(pending, handle) == {t \in pending : t.id # handle}

\* Faulty variant: no timer is set.
setTimeout_NotSet(pending, handle, deviceName, delay) == pending

\* Faulty variant: a timer is set only when the device had none pending.
setTimeout_OnlyFirst(pending, handle, deviceName, delay) ==
    IF \E t \in timers : t.deviceName = deviceName THEN pending
    ELSE pending \cup {[id |-> handle, deviceName |-> deviceName,
                        due |-> time + delay]}

\* setTimeout(callback, delay), returning handle: the callback marks
\* deviceName inactive.
setTimeout(pending, handle, deviceName, delay) ==
    pending \cup {[id |-> handle, deviceName |-> deviceName,
                   due |-> time + delay]}

\* resetDeviceInactivityTimerForDevice: what it leaves pending.
resetDeviceInactivityTimerForDevice(deviceName, handle) ==
    LET cleared == IF deviceName \in DOMAIN deviceTimeouts
                   THEN clearTimeout(timers, deviceTimeouts[deviceName])
                   ELSE timers
    IN  /\ timers' = setTimeout(cleared, handle, deviceName, getInactivityLimit)
        /\ deviceTimeouts' = Put(deviceTimeouts, deviceName, handle)

\* Faulty variant: the list is started anew at every event.
Buffer_StartsAnew(deviceName) == <<>>

\* this.recordedEvents[deviceName], or [] where the code starts a new list.
Buffer(deviceName) ==
    IF deviceName \in DOMAIN recordedEvents
    THEN recordedEvents[deviceName] ELSE <<>>

\* log(msg): logMessages.setState(logs => [...logs, {message: msg, ...}]).
\* A message is kept as its wording and the device it names.
LogEntry(message, deviceName) == [message |-> message, deviceName |-> deviceName]

\* What handleMidiEvent logs: "Started recording ..." when the device's list
\* is missing or empty, together with notifyUserOfStartRecording().
StartLog(deviceName) ==
    IF Len(Buffer(deviceName)) = 0
    THEN <<LogEntry("Started recording", deviceName)>>
    ELSE <<>>

\* handleMidiEvent.  rescheduled is not a field of the program: it notes
\* that the event found a timer of its device pending.
handleMidiEvent(deviceName) ==
    /\ eventCount < MaxEvents
    /\ logMessages' = logMessages \o StartLog(deviceName)
    /\ eventCount' = eventCount + 1
    /\ deviceActivity' = Put(deviceActivity, deviceName, TRUE)
    /\ recordedEvents' =
          Put(recordedEvents, deviceName,
              Append(Buffer(deviceName),
                     [event |-> eventCount + 1, deviceName |-> deviceName,
                      time |-> time,
                      rescheduled |-> \E t \in timers :
                                          t.deviceName = deviceName]))
    /\ resetDeviceInactivityTimerForDevice(deviceName, eventCount + 1)
    /\ UNCHANGED <<time, inactivityTimeLimitSeconds, stops, flushes, writing>>

\* Faulty variant: the test for an empty list is left out.
saveRecordedMidiToFile_EmptyToo(deviceName, throws) ==
    {[deviceName |-> deviceName, midiEvents |-> recordedEvents[deviceName],
      stop |-> stops + 1, saved |-> ~throws]}

\* saveRecordedMidiToFile: what a call adds to the files handed on.  A
\* device with no events is passed over; otherwise the events are encoded
\* and handed to fileSaver.writeFile, unless the serializer throws, which
\* the catch block logs.  stop numbers the call of
\* stopRecordingForAllDevices it was made from.
saveRecordedMidiToFile(deviceName, throws) ==
    IF Len(recordedEvents[deviceName]) = 0 THEN {}
    ELSE {[deviceName |-> deviceName, midiEvents |-> recordedEvents[deviceName],
           stop |-> stops + 1, saved |-> ~throws]}

\* The number of the first event a device sent, among all that are buffered
\* or were handed to saveRecordedMidiToFile.
FirstEventOf(d) ==
    LET sent == {recordedEvents[d][k].event : k \in 1..Len(recordedEvents[d])}
                \cup UNION {{f.midiEvents[k].event : k \in 1..Len(f.midiEvents)} :
                               f \in {g \in flushes : g.deviceName = d}}
    IN  CHOOSE n \in sent : \A m \in sent : n <= m

\* Object.keys(this.recordedEvents): the devices in the order their keys
\* were added, which is the order of their first events.
RecordedKeys ==
    LET keys == DOMAIN recordedEvents
    IN  CHOOSE seq \in [1..Cardinality(keys) -> keys] :
            \A i, j \in 1..Cardinality(keys) :
                i < j => FirstEventOf(seq[i]) < FirstEventOf(seq[j])

\* What saveRecordedMidiToFile logs for a device.
SaveLog(deviceName, throws) ==
    IF Len(recordedEvents[deviceName]) = 0
    THEN LogEntry("No events recorded for device", deviceName)
    ELSE IF throws
         THEN LogEntry("Error while saving MIDI file", deviceName)
         ELSE LogEntry("MIDI file saved for device", deviceName)

\* What stopRecordingForAllDevices logs.
StopLog(thrown) ==
    <<LogEntry("Stopping all recordings due to inactivity", "")>>
    \o [k \in 1..Len(RecordedKeys) |->
            SaveLog(RecordedKeys[k], RecordedKeys[k] \in thrown)]

\* The calls this.fileSaver.writeFile(midiFilePath, outputBuffer) of one
\* stopRecordingForAllDevices, for the devices given: one for each that has
\* events.  The call returns a promise that saveRecordedMidiToFile drops.
WriteFileCalls(devices) ==
    {[deviceName |-> d, stop |-> stops + 1] :
        d \in {e \in devices : Len(recordedEvents[e]) > 0}}

\* Faulty variant: only the device whose timer fired is saved and cleared.
stopRecordingForAllDevices_OnlyLast(last, thrown) ==
    /\ stops' = stops + 1
    /\ flushes' = flushes \cup
          (IF last \in DOMAIN recordedEvents
           THEN saveRecordedMidiToFile(last, last \in thrown) ELSE {})
    /\ writing' = writing \cup
          (IF last \in DOMAIN recordedEvents
           THEN WriteFileCalls({last} \ thrown) ELSE {})
    /\ recordedEvents' =
          [d \in DOMAIN recordedEvents |->
              IF d = last THEN <<>> ELSE recordedEvents[d]]

\* Faulty variant: the events are not cleared after saving.
stopRecordingForAllDevices_KeepsEvents(last, thrown) ==
    /\ stops' = stops + 1
    /\ flushes' = flushes \cup
          UNION {saveRecordedMidiToFile(d, d \in thrown) :
                    d \in DOMAIN recordedEvents}
    /\ writing' = writing \cup WriteFileCalls(DOMAIN recordedEvents \ thrown)
    /\ recordedEvents' = recordedEvents

\* Faulty variant: saveRecordedMidiToFile has no try/catch, so the first
\* throw ends the forEach: the devices that throw are the last ones tried,
\* and nothing is cleared after them.
stopRecordingForAllDevices_ThrowEndsLoop(last, thrown) ==
    /\ stops' = stops + 1
    /\ flushes' = flushes \cup
          UNION {saveRecordedMidiToFile(d, d \in thrown) :
                    d \in IF thrown = {} THEN DOMAIN recordedEvents ELSE thrown}
    /\ writing' = writing \cup
          (IF thrown = {} THEN WriteFileCalls(DOMAIN recordedEvents) ELSE {})
    /\ recordedEvents' =
          IF thrown = {} THEN [d \in DOMAIN recordedEvents |-> <<>>]
          ELSE recordedEvents

\* stopRecordingForAllDevices, called from the timer callback of device
\* last; thrown are the devices whose serialization throws.
stopRecordingForAllDevices(last, thrown) ==
    /\ stops' = stops + 1
    /\ flushes' = flushes \cup
          UNION {saveRecordedMidiToFile(d, d \in thrown) :
                    d \in DOMAIN recordedEvents}
    /\ writing' = writing \cup WriteFileCalls(DOMAIN recordedEvents \ thrown)
    /\ recordedEvents' = [d \in DOMAIN recordedEvents |-> <<>>]

\* Faulty variant: the flush is decided on the device whose timer fired alone.
allInactive_OwnDevice(activity, deviceName) == ~activity[deviceName]

\* Faulty variant: the flush waits for every device there is, also for those
\* that have sent nothing yet.
allInactive_EveryDevice(activity, deviceName) ==
    \A d \in Devices : d \in DOMAIN activity /\ ~activity[d]

\* Object.values(this.deviceActivity).every(isActive => !isActive)
allInactive(activity, deviceName) == \A d \in DOMAIN activity : ~activity[d]

\* The devices whose buffer holds events.
Buffering == {d \in DOMAIN recordedEvents : Len(recordedEvents[d]) > 0}

\* The callback of timer t runs: its device is now inactive, and when every
\* device is, all recordings are stopped.
inactivityTimeout(t, thrown) ==
    /\ t \in timers
    /\ t.due <= time
    /\ timers' = timers \ {t}
    /\ LET activity == Put(deviceActivity, t.deviceName, FALSE)
           inactive == <<LogEntry("is now inactive", t.deviceName)>>
       IN  /\ deviceActivity' = activity
           /\ IF allInactive(activity, t.deviceName)
              THEN /\ stopRecordingForAllDevices(t.deviceName, thrown)
                   /\ logMessages' = logMessages \o inactive \o StopLog(thrown)
              ELSE /\ thrown = {}
                   /\ logMessages' = logMessages \o inactive
                   /\ UNCHANGED <<recordedEvents, stops, flushes, writing>>
    /\ UNCHANGED <<time, inactivityTimeLimitSeconds, deviceTimeouts,
                   eventCount>>

\* The promise of a fileSaver.writeFile call settles: the file is on disk
\* (and uploaded or queued), or writing it failed.  Nothing waits for it.
writeFileSettles(w) ==
    /\ w \in writing
    /\ writing' = writing \ {w}
    /\ UNCHANGED <<time, inactivityTimeLimitSeconds, deviceActivity,
                   deviceTimeouts, recordedEvents, timers, eventCount, stops,
                   flushes, logMessages>>

RecorderNext ==
    \/ TimePasses /\ UNCHANGED <<uploadVars, encoderVars>>
    \/ \E limit \in Limits :
           submitInactivityTimeLimit(limit) /\ UNCHANGED <<uploadVars, encoderVars>>
    \/ \E deviceName \in Devices :
           handleMidiEvent(deviceName) /\ UNCHANGED <<uploadVars, encoderVars>>
    \/ \E t \in timers, thrown \in SUBSET Buffering :
           inactivityTimeout(t, thrown) /\ UNCHANGED <<uploadVars, encoderVars>>

\* The recorder's handlers.  The recorder never looks at the promises of
\* fileSaver.writeFile, so their settling, which changes nothing but
\* writing, is left out here: under RecorderSpec writing holds the calls made.
RecorderSpec == RecorderInit /\ [][RecorderNext]_vars

\* The recorder's handlers and the settling of the files' writes.
RecorderWritesNext ==
    \/ RecorderNext
    \/ \E w \in writing : writeFileSettles(w) /\ UNCHANGED <<uploadVars, encoderVars>>

RecorderWritesSpec == RecorderInit /\ [][RecorderWritesNext]_vars

\* The last instant at which an event's timer is due before the clock of
\* TimePasses stops, whatever limit is configured.
LastEventTime ==
    (MaxSeconds - (CHOOSE l \in Limits : \A m \in Limits : m <= l))
        * MS_PER_SECOND

\* The recorder's handlers, with every device silent after LastEventTime so
\* that the clock reaches the time each timer is due.
RecorderFairNext ==
    \/ TimePasses /\ UNCHANGED <<uploadVars, encoderVars>>
    \/ \E limit \in Limits :
           submitInactivityTimeLimit(limit)
               /\ UNCHANGED <<uploadVars, encoderVars>>
    \/ \E deviceName \in Devices :
           /\ time <= LastEventTime
           /\ handleMidiEvent(deviceName)
           /\ UNCHANGED <<uploadVars, encoderVars>>
    \/ \E t \in timers, thrown \in SUBSET Buffering :
           inactivityTimeout(t, thrown)
               /\ UNCHANGED <<uploadVars, encoderVars>>

\* The event loop runs a timer callback that is due, and time does not stop.
RecorderFairness ==
    /\ WF_vars(TimePasses /\ UNCHANGED <<uploadVars, encoderVars>>)
    /\ WF_vars(\E t \in timers, thrown \in SUBSET Buffering :
                   inactivityTimeout(t, thrown)
                       /\ UNCHANGED <<uploadVars, encoderVars>>)

RecorderFairSpec ==
    RecorderInit /\ [][RecorderFairNext]_vars /\ RecorderFairness

\* handleMidiEvent with a logger whose log throws (the logger is handed to
\* the constructor).  The call of line 54 is made when the device's list is
\* missing or empty; nothing catches the exception, so the handler ends
\* there, after deviceActivity[deviceName] = true.
handleMidiEventLogThrows(deviceName) ==
    /\ eventCount < MaxEvents
    /\ Len(Buffer(deviceName)) = 0
    /\ eventCount' = eventCount + 1
    /\ deviceActivity' = Put(deviceActivity, deviceName, TRUE)
    /\ UNCHANGED <<time, inactivityTimeLimitSeconds, deviceTimeouts,
                   recordedEvents, timers, stops, flushes, writing,
                   logMessages>>

\* The recorder's handlers with a logger that may throw when a start is
\* announced.
RecorderLogThrowsNext ==
    \/ RecorderNext
    \/ \E deviceName \in Devices :
           handleMidiEventLogThrows(deviceName) /\ UNCHANGED <<uploadVars, encoderVars>>

RecorderLogThrowsSpec == RecorderInit /\ [][RecorderLogThrowsNext]_vars

\* -------------------------------------------------------------- the encoder

\* const TICKS_PER_BEAT = 480; const BPM = 120;
TICKS_PER_BEAT == 480

BPM == 120

\* (60 / BPM) * 1000: the milliseconds of a beat, a whole number at this BPM.
msPerBeat == (60 * 1000) \div BPM

\* Math.round(num / den) for den > 0: the nearest integer, a half going up.
MathRound(num, den) == (2 * num + den) \div (2 * den)

\* calculateDeltaTime: nothing keeps the result from being negative.
calculateDeltaTime(previousTime, currentTime) ==
    LET msDifference == currentTime - previousTime
    IN  MathRound(msDifference * TICKS_PER_BEAT, msPerBeat)

\* event.event.velocity || 64: 64 for a missing velocity and for 0.
VelocityOr64(payload) ==
    IF "velocity" \in DOMAIN payload /\ payload.velocity # 0
    THEN payload.velocity ELSE 64

\* convertMidiEventToMidiFileFormat: <<the track event>>, or <<>> for null.
\* A "cc" event without a value yields a controller event without one
\* (value: undefined).
convertMidiEventToMidiFileFormat(event, deltaTime) ==
    LET payload == event.event
    IN  IF payload.type = "noteon"
        THEN <<[deltaTime |-> deltaTime, type |-> "noteOn",
                noteNumber |-> payload.number,
                velocity |-> VelocityOr64(payload),
                channel |-> payload.channel]>>
        ELSE IF payload.type = "noteoff"
        THEN <<[deltaTime |-> deltaTime, type |-> "noteOff",
                noteNumber |-> payload.number, velocity |-> 0,
                channel |-> payload.channel]>>
        ELSE IF payload.type = "cc"
        THEN IF "value" \in DOMAIN payload
             THEN <<[deltaTime |-> deltaTime, type |-> "controller",
                     controllerType |-> payload.number,
                     value |-> payload.value, channel |-> payload.channel]>>
             ELSE <<[deltaTime |-> deltaTime, type |-> "controller",
                     controllerType |-> payload.number,
                     channel |-> payload.channel]>>
        ELSE <<>>

\* Faulty variant: previousTime stays at the first event's time.
PreviousTime_StaysFirst(events, k) == events[1].time

\* previousTime when the loop reaches events[k]: set from the first event
\* before the loop, then from every event, dropped or not.
PreviousTime(events, k) ==
    IF k = 1 THEN events[1].time ELSE events[k - 1].time

\* Faulty variant: the event is put in front of the track.
TrackPush_Front(track, converted) == converted \o track

\* if (midiTrackEvent) midiData.tracks[0].push(midiTrackEvent)
TrackPush(track, converted) == track \o converted

\* midiData.tracks[0] after the forEach over the list.
Track(events) ==
    LET after[k \in 0..Len(events)] ==
            IF k = 0 THEN <<>>
            ELSE TrackPush(after[k - 1],
                     convertMidiEventToMidiFileFormat(
                         events[k].event,
                         calculateDeltaTime(PreviousTime(events, k),
                                            events[k].time)))
    IN  after[Len(events)]

\* saveRecordedMidiToFile from the header to the end of the forEach, for a
\* list that is not empty.
buildMidiData ==
    /\ Len(midiEvents) > 0
    /\ midiData = NoData
    /\ midiData' = [header |-> [format |-> 1, numTracks |-> 1,
                                ticksPerBeat |-> TICKS_PER_BEAT],
                    tracks |-> <<Track(midiEvents)>>]
    /\ UNCHANGED <<midiEvents, deltaCall>>

\* The longest list drawn, but for Scenario A.
MaxListLen == 3

\* performance.now() at the arrival of an event, in milliseconds.
ArrivalTimes == {0, 13, 500, 1200}

\* midiEventFull.event of the events drawn for lists of any length: a note
\* on with and without velocity, note offs, a controller, and a type the
\* encoder does not know.
ListPayloads ==
    {[type |-> "noteon", number |-> 60, channel |-> 0, velocity |-> 100],
     [type |-> "noteon", number |-> 64, channel |-> 0],
     [type |-> "noteoff", number |-> 60, channel |-> 0],
     [type |-> "noteoff", number |-> 64, channel |-> 0],
     [type |-> "cc", number |-> 7, channel |-> 0, value |-> 100],
     [type |-> "pitchbend", number |-> 0, channel |-> 0]}

\* Drawn for lists of one event: a note on with every velocity, a note off
\* that carries a velocity, a controller with value 0 and one without value.
SinglePayloads ==
    {[type |-> "noteon", number |-> 60, channel |-> 0, velocity |-> v] :
        v \in 0..127}
    \cup {[type |-> "noteoff", number |-> 60, channel |-> 0, velocity |-> 100],
          [type |-> "cc", number |-> 7, channel |-> 0, value |-> 0],
          [type |-> "cc", number |-> 7, channel |-> 0]}

\* {event: midiEventFull, time}
LoggedMidiEvent(payload, at) == [event |-> [event |-> payload], time |-> at]

\* NoteOn(60, vel=100)@0, NoteOn(64)@500, NoteOff(60)@1000, NoteOff(64)@1200.
ScenarioA ==
    <<LoggedMidiEvent([type |-> "noteon", number |-> 60, channel |-> 0,
              velocity |-> 100], 0),
      LoggedMidiEvent([type |-> "noteon", number |-> 64, channel |-> 0],
                      500),
      LoggedMidiEvent([type |-> "noteoff", number |-> 60, channel |-> 0],
                      1000),
      LoggedMidiEvent([type |-> "noteoff", number |-> 64, channel |-> 0],
                      1200)>>

\* The lists of a device: handleMidiEvent pushes with the clock's reading,
\* so the times of a list never decrease.
EventLists ==
    {events \in UNION {[1..n -> {LoggedMidiEvent(p, at) : p \in ListPayloads,
                                                 at \in ArrivalTimes}] :
                          n \in 1..MaxListLen} :
        \A k \in 2..Len(events) : events[k - 1].time <= events[k].time}
    \cup {<<LoggedMidiEvent(p, 0)>> : p \in SinglePayloads}
    \cup {ScenarioA}

EncoderInit ==
    /\ UploadsAtRest
    /\ inactivityTimeLimitSeconds = DEFAULT_LIMIT_SECONDS
    /\ RecorderConstructed
    /\ logMessages = <<>>
    /\ midiEvents \in EventLists
    /\ midiData = NoData
    /\ deltaCall = NoCall

EncoderNext ==
    buildMidiData /\ UNCHANGED <<uploadVars, recorderVars, logMessages>>

EncoderSpec == EncoderInit /\ [][EncoderNext]_vars

\* Arguments of calculateDeltaTime called on its own.
ClockValues == {0, 13, 200, 500, 513, 1000, 1200, 1213}

\* calculateDeltaTime(previousTime, currentTime) returns.
calculateDeltaTimeReturns ==
    /\ deltaCall.returned = <<>>
    /\ deltaCall' =
          [deltaCall EXCEPT !.returned =
              <<calculateDeltaTime(deltaCall.previousTime,
                                   deltaCall.currentTime)>>]
    /\ UNCHANGED <<midiEvents, midiData>>

DeltaTimeInit ==
    /\ UploadsAtRest
    /\ inactivityTimeLimitSeconds = DEFAULT_LIMIT_SECONDS
    /\ RecorderConstructed
    /\ logMessages = <<>>
    /\ midiEvents = <<>>
    /\ midiData = NoData
    /\ deltaCall \in {[previousTime |-> p, currentTime |-> c,
                       returned |-> <<>>] : p, c \in ClockValues}

DeltaTimeNext ==
    calculateDeltaTimeReturns
        /\ UNCHANGED <<uploadVars, recorderVars, logMessages>>

DeltaTimeSpec == DeltaTimeInit /\ [][DeltaTimeNext]_vars

\* ------------------------------------------------------- the claims' terms

\* The ids of a queue, and the entry of a queue with a given id.
Ids(ups) == {ups[k].id : k \in 1..Len(ups)}

Entry(ups, id) == ups[CHOOSE k \in 1..Len(ups) : ups[k].id = id]

\* The id of the entry whose upload sweep s awaits.
AwaitedId(s) == Upload(sweeps[s]).id

\* Sweep s takes a step: the upload it awaited settled.
SweepSettles(s) == retrySucceeds(s) \/ \E err \in Errors : retryFails(s, err)

\* A new execution of retryPendingUploads starts.
SweepFires == retryInterval \/ startupRetry

\* The eligibility rule as the specification states it.
EligibleAt(upload, t) ==
    /\ t >= upload.lastAttemptTime + Pow2(upload.attempts - 1) * MS_PER_MINUTE
    /\ upload.attempts < MAX_ATTEMPTS

\* One stretch of a sweep's loop over its snapshot, from the entry after
\* index from to the entry it attempts next (to), or to the end (to = 0):
\* the attempted entry is eligible, and with a destination configured no
\* entry passed over was.
StretchFollowsRule(uploads, t, from, to) ==
    /\ to # 0 => EligibleAt(uploads[to], t)
    /\ uploaderUrl # NoUrl =>
          \A k \in (from + 1)..(IF to = 0 THEN Len(uploads) ELSE to - 1) :
              ~EligibleAt(uploads[k], t)

\* ---------------------------------------------------------------- C1 .. C10

\* C1: no two delivery attempts are in flight at once for the same queue
\* entry (same id), whatever the interleaving of the two timers and the awaits.
C1_OneAttemptPerEntry ==
    \A s, t \in 1..Len(sweeps) : s # t => AwaitedId(s) # AwaitedId(t)

\* C2: at most one execution of retryPendingUploads is running at any time.
C2_SweepsNeverOverlap == Len(sweeps) <= 1

C4_EvictedAtCeiling ==
    [][ \A s \in 1..Len(sweeps) : \A err \in Errors :
            ( /\ retryFails(s, err)
              /\ AwaitedId(s) \in Ids(pendingUploads)
              /\ Entry(pendingUploads, AwaitedId(s)).attempts + 1 >= MAX_ATTEMPTS )
            => AwaitedId(s) \notin Ids(pendingUploads')
      ]_vars

\* C5: every queued entry eventually leaves the queue.  An entry leaves only
\* through a sweep that attempts it; a sweep passes over an entry it read with
\* attempts >= 10, and nothing lowers attempts.  So at all times a queued
\* entry must be below the ceiling, or be ahead in the snapshot of a sweep in
\* flight: otherwise no sweep, running or future, will ever attempt it.
C5_EveryEntryCanLeave ==
    \A k \in 1..Len(pendingUploads) :
        \/ pendingUploads[k].attempts < MAX_ATTEMPTS
        \/ \E s \in 1..Len(sweeps) :
               \E j \in sweeps[s].i..Len(sweeps[s].uploads) :
                   sweeps[s].uploads[j].id = pendingUploads[k].id

\* C6: attempts of a queued entry is at least 1, is 1 when the entry is
\* enqueued, and never decreases.
C6_AttemptsMonotone ==
    /\ \A k \in 1..Len(pendingUploads) : pendingUploads[k].attempts >= 1
    /\ [][ \A k \in 1..Len(pendingUploads') :
               LET u == pendingUploads'[k]
               IN  /\ u.attempts >= 1
                   /\ u.id \in Ids(pendingUploads) =>
                          u.attempts >= Entry(pendingUploads, u.id).attempts
                   /\ u.id \notin Ids(pendingUploads) => u.attempts = 1
         ]_vars

\* C6 witness: the queue holds a freshly enqueued entry (attempts = 1) next
\* to one whose attempts a sweep of this run has raised.
C6_Witness ==
    /\ \E k \in 1..Len(pendingUploads) :
           /\ pendingUploads[k].attempts > 1
           /\ pendingUploads[k].lastAttemptTime >= STARTUP_DELAY_MS
    /\ \E k \in 1..Len(pendingUploads) :
           /\ pendingUploads[k].attempts = 1
           /\ pendingUploads[k].lastAttemptTime >= 0

\* C7: an enqueue during a sweep in flight keeps everything the queue holds
\* (so also what the sweep has removed or updated so far stays so) and adds
\* the new entry; a sweep's write-back, for its part, keeps every entry that
\* was enqueued after the sweep took its snapshot.
C7_NoLostUpdate ==
    [][ /\ \A w \in 1..Len(writes) : \A err \in FirstErrors :
              (uploadFails(w, err) /\ sweeps # <<>>) =>
                  /\ Len(pendingUploads') = Len(pendingUploads) + 1
                  /\ SubSeq(pendingUploads', 1, Len(pendingUploads)) = pendingUploads
                  /\ pendingUploads'[Len(pendingUploads')].id = UploadId(writes[w])
        /\ \A s \in 1..Len(sweeps) : SweepSettles(s) =>
              \A id \in Ids(pendingUploads) \ Ids(sweeps[s].uploads) :
                  /\ id \in Ids(pendingUploads')
                  /\ Entry(pendingUploads', id) = Entry(pendingUploads, id)
      ]_vars

\* C7 witness: a sweep is in flight and the queue holds an entry enqueued
\* after the sweep took its snapshot.
C7_Witness ==
    \E s \in 1..Len(sweeps) : Ids(pendingUploads) \ Ids(sweeps[s].uploads) # {}

C9_SuccessRemovesEntry ==
    [][ \A s \in 1..Len(sweeps) : retrySucceeds(s) =>
            /\ AwaitedId(s) \notin Ids(pendingUploads')
            /\ Ids(pendingUploads') = Ids(pendingUploads) \ {AwaitedId(s)}
            /\ Len(pendingUploads') = Cardinality(Ids(pendingUploads'))
            /\ \A j, k \in 1..Len(pendingUploads) :
                   (j < k /\ pendingUploads[j].id # AwaitedId(s)
                          /\ pendingUploads[k].id # AwaitedId(s)) =>
                   \E a, b \in 1..Len(pendingUploads') :
                       /\ a < b
                       /\ pendingUploads'[a] = pendingUploads[j]
                       /\ pendingUploads'[b] = pendingUploads[k]
            /\ \A id \in Ids(pendingUploads') :
                   Entry(pendingUploads', id) = Entry(pendingUploads, id)
      ]_vars

\* C9 witness: a retry has succeeded and other entries are still queued.
C9_Witness == delivered # {} /\ pendingUploads # <<>>

\* C10: a retried upload that fails raises that entry's attempts by exactly
\* 1, sets its lastAttemptTime to the sweep's now and its error to the new
\* message, and changes no other entry; the entry stays queued unless the
\* handler finds the attempt ceiling reached.
C10_FailureUpdatesEntry ==
    [][ \A s \in 1..Len(sweeps) : \A err \in Errors : retryFails(s, err) =>
            /\ \A id \in Ids(pendingUploads') :
                   /\ id \in Ids(pendingUploads)
                   /\ Entry(pendingUploads', id) =
                          IF id = AwaitedId(s)
                          THEN [Entry(pendingUploads, id) EXCEPT
                                   !.attempts = @ + 1,
                                   !.lastAttemptTime = sweeps[s].now,
                                   !.error = err]
                          ELSE Entry(pendingUploads, id)
            /\ \A id \in Ids(pendingUploads) \ Ids(pendingUploads') :
                   /\ id = AwaitedId(s)
                   /\ Upload(sweeps[s]).attempts + 1 >= MAX_ATTEMPTS
            /\ Len(pendingUploads') = Cardinality(Ids(pendingUploads'))
      ]_vars

\* C10 witness: a sweep of this run has marked an entry failed, with a message
\* other than the one it was queued with, while another entry is queued.
C10_Witness ==
    \E k \in 1..Len(pendingUploads) :
        /\ pendingUploads[k].attempts > 1
        /\ pendingUploads[k].lastAttemptTime >= STARTUP_DELAY_MS
        /\ pendingUploads[k].error \notin FirstErrors
        /\ Len(pendingUploads) > 1

\* --------------------------------------------------------------- C11 .. C13

\* The ids a queue has ever held and holds no more left it delivered or
\* abandoned.
EverQueued == Ids(pendingUploads) \cup delivered \cup abandoned

C12_EnqueueOncePerFailedJob ==
    [][ /\ \A w \in 1..Len(writes) : \A err \in FirstErrors :
              uploadFails(w, err) =>
                  /\ UploadId(writes[w]) \notin EverQueued
                  /\ pendingUploads' =
                        Append(pendingUploads,
                               [id |-> UploadId(writes[w]),
                                fileName |-> JobFileName(writes[w]),
                                contentType |-> writes[w].job,
                                attempts |-> 1,
                                lastAttemptTime |-> now,
                                error |-> err])
                  /\ \A v \in 1..Len(writes') :
                         writes'[v].fileName = writes[w].fileName =>
                             writes'[v].job # writes[w].job
        /\ \A w \in 1..Len(writes) : uploadSucceeds(w) =>
              /\ pendingUploads' = pendingUploads
              /\ \A v \in 1..Len(writes') :
                     writes'[v].fileName = writes[w].fileName =>
                         writes'[v].job # writes[w].job
        /\ Ids(pendingUploads') \ Ids(pendingUploads) # {} =>
              \E w \in 1..Len(writes) : \E err \in FirstErrors :
                  uploadFails(w, err)
      ]_vars

\* C12 witness: the queue holds the audio job of a writeFile call, just
\* queued with attempts = 1, while the MIDI job of the same call, whose first
\* upload succeeded, was never queued.
C12_Witness ==
    \E k \in 1..Len(pendingUploads) :
        LET u == pendingUploads[k]
        IN  /\ u.contentType = "audio/wav"
            /\ u.attempts = 1
            /\ u.lastAttemptTime = now
            /\ u.id - 1 \notin EverQueued

\* C13: within one sweep a failed attempt on one entry does not stop the
\* sweep: with a destination configured the sweep goes on to attempt the next
\* entry of its snapshot that is eligible, and ends only when there is none.
C13_FailureDoesNotStopSweep ==
    [][ \A s \in 1..Len(sweeps) : \A err \in Errors :
            (retryFails(s, err) /\ uploaderUrl # NoUrl) =>
                LET sw == sweeps[s]
                    later == {k \in (sw.i + 1)..Len(sw.uploads) :
                                  EligibleAt(sw.uploads[k], sw.now)}
                IN  IF later = {}
                    THEN Len(sweeps') = Len(sweeps) - 1
                    ELSE /\ Len(sweeps') = Len(sweeps)
                         /\ sweeps'[s].i \in later
                         /\ \A k \in later : sweeps'[s].i <= k
                         /\ sweeps'[s].uploads = sw.uploads
                         /\ sweeps'[s].now = sw.now
      ]_vars

\* C13 witness: a sweep is attempting an entry after an earlier attempt of
\* the same sweep has failed (the earlier entry carries the sweep's now and
\* one attempt more than the sweep read).
C13_Witness ==
    \E s \in 1..Len(sweeps) : \E k \in 1..(sweeps[s].i - 1) :
        LET u == sweeps[s].uploads[k]
        IN  /\ u.id \in Ids(pendingUploads)
            /\ Entry(pendingUploads, u.id).attempts = u.attempts + 1
            /\ Entry(pendingUploads, u.id).lastAttemptTime = sweeps[s].now

\* ------------------------------------------- the recorder claims' terms

\* A device is known once it has sent an event; it is Recording while
\* deviceActivity holds true for it and Idle while it holds false.
Known(d) == d \in DOMAIN deviceActivity

Recording(d) == Known(d) /\ deviceActivity[d]

Idle(d) == Known(d) /\ ~deviceActivity[d]

\* The pending inactivity timers of a device.
TimersOf(d) == {t \in timers : t.deviceName = d}

\* The longest inactivity limit in use.
LongestLimit == CHOOSE l \in Limits : \A m \in Limits : m <= l

\* The numbers of the events of a sequence of logged events.
EventsIn(events) == {events[k].event : k \in 1..Len(events)}

LastOf(events) == events[Len(events)]

\* Where event n is: 0 stands for a device's buffer, a positive number for
\* the call of stopRecordingForAllDevices that flushed it.
Containers(n) ==
    {0 : d \in {d \in DOMAIN recordedEvents :
                    n \in EventsIn(recordedEvents[d])}}
    \cup {f.stop : f \in {f \in flushes : n \in EventsIn(f.midiEvents)}}

\* A timer callback runs in this step.
TimerFires == \E t \in timers : t.due <= time /\ timers' = timers \ {t}

\* --------------------------------------------------------------- C14 .. C20

\* C14: each device has at most one pending inactivity timer at any instant,
\* and it is the one scheduled last for the device: a firing that an event
\* has rescheduled never occurs.
C14_OneTimerPerDevice ==
    \A d \in Devices :
        /\ Cardinality(TimersOf(d)) <= 1
        /\ \A t \in TimersOf(d) : deviceTimeouts[d] = t.id

\* C14 witness: a device's timer has been rescheduled and the time the
\* superseded timer was due has passed without it firing.
C14_Witness ==
    \E d \in Devices :
        /\ TimersOf(d) # {}
        /\ Len(Buffer(d)) >= 2
        /\ LastOf(Buffer(d)).rescheduled
        /\ stops = 0
        /\ time > Buffer(d)[1].time + LongestLimit * MS_PER_SECOND

\* C15: no device's buffer is flushed while any known device is Recording: a
\* buffer is saved or emptied only in a timer callback after which every
\* known device is Idle, so a device going quiet while another is still
\* Recording causes no flush.
C15_FlushOnlyWhenAllIdle ==
    [][ ( \/ flushes' # flushes
          \/ stops' # stops
          \/ \E d \in DOMAIN recordedEvents :
                 Len(recordedEvents'[d]) < Len(recordedEvents[d]) )
        => /\ TimerFires
           /\ \A d \in Devices : ~Recording(d)'
      ]_vars

\* C15 witness: a device has gone quiet and is Idle with its events still
\* buffered while the other device is Recording, and nothing was flushed.
C15_Witness ==
    \E d, e \in Devices :
        /\ Idle(d) /\ Len(Buffer(d)) > 0
        /\ Recording(e)
        /\ flushes = {} /\ stops = 0

\* C16: when all recordings are stopped, every device whose buffer is
\* non-empty is flushed: its whole buffer goes through
\* saveRecordedMidiToFile in that call, also when the device became Idle at
\* an earlier timer firing while another device was still Recording.
C16_FlushAllFlushesEveryBuffer ==
    [][ stops' # stops =>
            \A d \in Buffering :
                \E f \in flushes' \ flushes :
                    /\ f.deviceName = d
                    /\ f.midiEvents = recordedEvents[d]
                    /\ f.stop = stops'
      ]_vars

\* C16 witness: one call has produced a file for a device that had been Idle
\* since before the last event of the other device flushed with it.
C16_Witness ==
    \E f, g \in flushes :
        /\ f.stop = g.stop
        /\ f.deviceName # g.deviceName
        /\ f.saved
        /\ LastOf(f.midiEvents).time + LongestLimit * MS_PER_SECOND
               < LastOf(g.midiEvents).time

\* Every event logged so far, buffered or flushed.
AllEvents ==
    UNION {{recordedEvents[d][k] : k \in 1..Len(recordedEvents[d])} :
              d \in DOMAIN recordedEvents}
    \cup UNION {{f.midiEvents[k] : k \in 1..Len(f.midiEvents)} : f \in flushes}

\* p is the event of e's device that arrived last before e.
Precedes(p, e) ==
    /\ p.deviceName = e.deviceName
    /\ p.event < e.event
    /\ \A q \in AllEvents :
           q.deviceName = e.deviceName => (q.event <= p.event \/ q.event >= e.event)

\* C17: N events of a device that each arrive before the device's previously
\* scheduled timer expires end in exactly one flush of the device, not N: an
\* event that found the timer pending is where the device's event before it
\* is (both still buffered, or both in the one file the device got from the
\* same flush), and every event is in exactly one place.
C17_OneFlushPerBurst ==
    /\ \A n \in 1..eventCount : Cardinality(Containers(n)) = 1
    /\ \A f, g \in flushes :
           (f.deviceName = g.deviceName /\ f.stop = g.stop) => f = g
    /\ \A e \in AllEvents :
           e.rescheduled =>
               \E p \in AllEvents :
                   /\ Precedes(p, e)
                   /\ Containers(p.event) = Containers(e.event)

\* C17 witness: a device sent three events, the second and third each before
\* the timer expired, went silent, and was flushed once: one file holds all
\* three.
C17_Witness ==
    \E f \in flushes :
        /\ flushes = {f}
        /\ f.saved
        /\ Len(f.midiEvents) = 3
        /\ f.midiEvents[2].rescheduled /\ f.midiEvents[3].rescheduled
        /\ stops = 1
        /\ Buffering = {}

\* C18: one period in which all devices are inactive together triggers
\* exactly one call of stopRecordingForAllDevices, made by the timer callback
\* that starts the period; after it every buffer is empty, and no event is in
\* the files of two flushes or in a file and still buffered.
C18_OneFlushAllPerIdlePeriod ==
    /\ [](\A f, g \in flushes :
              (EventsIn(f.midiEvents) \cap EventsIn(g.midiEvents) # {}) => f = g)
    /\ [](\A f \in flushes : \A d \in DOMAIN recordedEvents :
              EventsIn(f.midiEvents) \cap EventsIn(recordedEvents[d]) = {})
    /\ [][ /\ stops' # stops =>
                 /\ stops' = stops + 1
                 /\ \E d \in Devices : Recording(d)
                 /\ \A d \in Devices : ~Recording(d)'
                 /\ \A d \in DOMAIN recordedEvents' : recordedEvents'[d] = <<>>
           /\ ( (\E d \in Devices : Recording(d))
                    /\ (\A d \in Devices : ~Recording(d)') )
                 => stops' = stops + 1
         ]_vars

\* C18 witness: two periods of inactivity, two calls, and a device flushed in
\* both, each file with the events of its own period.
C18_Witness ==
    /\ stops = 2
    /\ \E f, g \in flushes :
           /\ f.deviceName = g.deviceName
           /\ f.stop = 1 /\ g.stop = 2
           /\ f.saved /\ g.saved

\* C19 as stated: in every reachable state a device whose buffer is
\* non-empty is Recording; no device is Idle while holding buffered events.
C19_BufferOnlyWhileRecording ==
    \A d \in DOMAIN recordedEvents :
        Len(recordedEvents[d]) > 0 => Recording(d)

\* C19 as amended: a device whose buffer is non-empty is Recording, or is
\* Idle while another known device is Recording (its events wait for the
\* flush of all devices).
C19_BufferOnlyWhileSomeRecording ==
    \A d \in DOMAIN recordedEvents :
        Len(recordedEvents[d]) > 0 =>
            \/ Recording(d)
            \/ Idle(d) /\ \E e \in Devices \ {d} : Recording(e)

\* C19 witness: an Idle device holds events while the other one records.
C19_Witness ==
    \E d \in Devices :
        /\ Idle(d)
        /\ Len(Buffer(d)) > 0
        /\ \E e \in Devices \ {d} : Recording(e) /\ Len(Buffer(e)) > 0

\* C20: in every reachable state a device has a pending inactivity timer if
\* and only if it is Recording.
C20_TimerIffRecording ==
    \A d \in Devices : (TimersOf(d) # {}) <=> Recording(d)

\* C20 witness: one device is Idle with no timer, after its timer fired,
\* while the other is Recording with its timer pending.
C20_Witness ==
    \E d, e \in Devices :
        /\ Idle(d) /\ TimersOf(d) = {} /\ d \in DOMAIN deviceTimeouts
        /\ Recording(e) /\ TimersOf(e) # {}

\* --------------------------------------------------------------- C21 .. C30

\* What a step appends to the log channel.
NewLog == SubSeq(logMessages', Len(logMessages) + 1, Len(logMessages'))

\* How often a step logs a message about a device.
Logged(message, deviceName) ==
    Cardinality({k \in 1..Len(NewLog) : NewLog[k] = LogEntry(message, deviceName)})

\* C21: every event that moves a device from Idle (or not yet known) to
\* Recording is announced by exactly one session-started notification,
\* whether or not the device's buffer is empty at that moment; an event that
\* arrives while the device is Recording is announced by none.
C21_StartAnnouncedPerTransition ==
    [][ \A d \in Devices : handleMidiEvent(d) =>
            Logged("Started recording", d) = IF Recording(d) THEN 0 ELSE 1
      ]_vars

\* C22: a device's buffer is never cleared while the persist step of its
\* flush (the fileSaver.writeFile call that got the encoded events) is still
\* in flight: as long as the call has not settled, the buffer holds the
\* events handed to it.
C22_BufferKeptWhilePersisting ==
    \A w \in writing :
        \A f \in flushes :
            (f.deviceName = w.deviceName /\ f.stop = w.stop) =>
                EventsIn(f.midiEvents) \subseteq EventsIn(Buffer(w.deviceName))

\* C23: when the encode or persist step of one device fails in a flush of
\* all devices, the failure stays with that device: every other device with
\* a non-empty buffer is flushed in the same call, its file handed to the
\* file saver unless its own step fails, each outcome is logged for its own
\* device, and the call runs to its end (every buffer cleared).
C23_FlushFailureIsolated ==
    [][ (stops' # stops /\ \E g \in flushes' \ flushes : ~g.saved) =>
            /\ \A d \in Buffering :
                   \E f \in flushes' \ flushes :
                       /\ f.deviceName = d
                       /\ f.midiEvents = recordedEvents[d]
                       /\ f.stop = stops'
                       /\ f.saved <=>
                              [deviceName |-> d, stop |-> stops'] \in writing'
                       /\ Logged("MIDI file saved for device", d)
                              = IF f.saved THEN 1 ELSE 0
                       /\ Logged("Error while saving MIDI file", d)
                              = IF f.saved THEN 0 ELSE 1
            /\ \A d \in DOMAIN recordedEvents' : recordedEvents'[d] = <<>>
      ]_vars

\* C23 witness: in one flush of all devices the step of one device failed and
\* the other device's file was handed to the file saver.
C23_Witness ==
    \E f, g \in flushes :
        /\ f.stop = g.stop
        /\ f.deviceName # g.deviceName
        /\ ~f.saved
        /\ g.saved
        /\ [deviceName |-> g.deviceName, stop |-> g.stop] \in writing

\* C29: an inactivity timer is scheduled with the limit the configuration
\* holds at that moment (the new value applies from the next scheduling on);
\* a change of the configuration leaves every pending timer as it is, a
\* pending timer never changes the time it is due, and it fires at that time.
C29_TimerKeepsItsLimit ==
    [][ /\ \A d \in Devices : handleMidiEvent(d) =>
               \E t \in timers' :
                   /\ t.deviceName = d
                   /\ t.id = deviceTimeouts'[d]
                   /\ t.due = time + inactivityTimeLimitSeconds * MS_PER_SECOND
        /\ inactivityTimeLimitSeconds' # inactivityTimeLimitSeconds =>
               timers' = timers
        /\ \A t \in timers, u \in timers' : t.id = u.id => t.due = u.due
        /\ TimerFires => \A t \in timers \ timers' : t.due = time
      ]_vars

\* C29 witness: the limit was shortened while a timer was pending, and the
\* timer is still pending at the time the new limit would have had it fire.
C29_Witness ==
    \E t \in timers :
        LET last == LastOf(Buffer(t.deviceName))
        IN  /\ t.id = last.event
            /\ t.due > last.time + getInactivityLimit
            /\ time >= last.time + getInactivityLimit

\* C27: the log channel (the logMessages state) is append-only, entries are
\* never removed or rewritten, and each enqueue, retry success, retry failure
\* and eviction appends an entry to it, as each session start, session stop,
\* flush success and flush failure does.
C27_EveryTransitionLogged ==
    [][ /\ Len(logMessages') >= Len(logMessages)
        /\ SubSeq(logMessages', 1, Len(logMessages)) = logMessages
        /\ (\E w \in 1..Len(writes), err \in FirstErrors : uploadFails(w, err))
               => Len(NewLog) > 0
        /\ (\E s \in 1..Len(sweeps) : retrySucceeds(s)) => Len(NewLog) > 0
        /\ (\E s \in 1..Len(sweeps), err \in Errors : retryFails(s, err))
               => Len(NewLog) > 0
        /\ abandoned' # abandoned => Len(NewLog) > 0
        /\ (\E d \in Devices : ~Recording(d) /\ Recording(d)')
               => Len(NewLog) > 0
        /\ stops' # stops =>
               /\ Logged("Stopping all recordings due to inactivity", "") = 1
               /\ \A f \in flushes' \ flushes :
                      Logged(IF f.saved THEN "MIDI file saved for device"
                             ELSE "Error while saving MIDI file",
                             f.deviceName) = 1
      ]_vars

\* C28: when the logger throws while a session start is announced, the event
\* that triggered it is still appended to its device's buffer and the
\* device's inactivity timer is still scheduled: every event received is in
\* a buffer or was flushed, and every Recording device has a timer pending.
C28_EventKeptWhenLogThrows ==
    /\ \A n \in 1..eventCount : Containers(n) # {}
    /\ \A d \in Devices : Recording(d) => TimersOf(d) # {}

\* The encoder has run, and the track it built.
Encoded == midiData.tracks # <<>>

EncodedTrack == midiData.tracks[1]

\* The places in the list of the events of a kind the encoder knows, in
\* the order of the list.
EmittedAt ==
    LET Known3(k) == midiEvents[k].event.event.type \in {"noteon", "noteoff", "cc"}
    IN  SelectSeq([k \in 1..Len(midiEvents) |-> k], Known3)

\* A track event is the encoding of a logged event: its kind, and the note
\* or controller number.
EncodingOf(trackEvent, logged) ==
    LET payload == logged.event.event
    IN  \/ /\ payload.type = "noteon"
           /\ trackEvent.type = "noteOn"
           /\ trackEvent.noteNumber = payload.number
        \/ /\ payload.type = "noteoff"
           /\ trackEvent.type = "noteOff"
           /\ trackEvent.noteNumber = payload.number
        \/ /\ payload.type = "cc"
           /\ trackEvent.type = "controller"
           /\ trackEvent.controllerType = payload.number

\* The track holds the encodings of the list's known events in arrival order.
ArrivalOrderKept ==
    /\ Len(EncodedTrack) = Len(EmittedAt)
    /\ \A i \in 1..Len(EncodedTrack) :
           EncodingOf(EncodedTrack[i], midiEvents[EmittedAt[i]])

\* C24 as stated: for any non-empty list of one device, the track lists the
\* encoded events in arrival order and the tick delta of the track's first
\* event is 0.
C24_FirstDeltaZero ==
    Encoded =>
        /\ ArrivalOrderKept
        /\ EncodedTrack # <<>> => EncodedTrack[1].deltaTime = 0

\* C24 amended: the track lists the encoded events in arrival order, and the
\* tick delta of the first event of the list is 0: the track's first event
\* has delta 0 when it encodes the first event of the list.
C24_FirstListedDeltaZero ==
    Encoded =>
        /\ ArrivalOrderKept
        /\ (EncodedTrack # <<>> /\ EmittedAt[1] = 1) =>
               EncodedTrack[1].deltaTime = 0

\* C24 witness: a list that starts with events of known kinds for different
\* notes, the first of them later than time 0, has been encoded.
C24_Witness ==
    /\ Encoded
    /\ Len(EncodedTrack) >= 2
    /\ EmittedAt[1] = 1
    /\ midiEvents[1].time > 0
    /\ EncodedTrack[1].type = "noteOn"
    /\ EncodedTrack[2].type = "noteOn"
    /\ EncodedTrack[1].noteNumber # EncodedTrack[2].noteNumber

\* The tick deltas of the track.
Deltas == [i \in 1..Len(EncodedTrack) |-> EncodedTrack[i].deltaTime]

\* C25: for every event after the first, the tick delta is
\* round((arrival[i] - arrival[i-1]) / 500 * 480); arrivals at 0, 500, 1000
\* and 1200 ms encode to the deltas 0, 480, 480, 192.
C25_DeltaIsRoundedGap ==
    Encoded =>
        /\ \A i \in 1..Len(EncodedTrack) :
               LET k == EmittedAt[i]
                   gap == midiEvents[k].time - midiEvents[k - 1].time
               IN  k > 1 =>
                       EncodedTrack[i].deltaTime
                           = (2 * gap * 480 + 500) \div (2 * 500)
        /\ midiEvents = ScenarioA => Deltas = <<0, 480, 480, 192>>

\* C25 witness: Scenario A has been encoded, with its four deltas.
C25_Witness ==
    /\ Encoded
    /\ midiEvents = ScenarioA
    /\ Deltas = <<0, 480, 480, 192>>

\* C26: a note on is encoded with exactly the velocity supplied, for every
\* supplied value 0..127, and with velocity 64 only when none was supplied.
C26_VelocityAsSupplied ==
    Encoded =>
        \A i \in 1..Len(EncodedTrack) :
            LET payload == midiEvents[EmittedAt[i]].event.event
            IN  payload.type = "noteon" =>
                    EncodedTrack[i].velocity =
                        IF "velocity" \in DOMAIN payload
                        THEN payload.velocity ELSE 64

C31_ValuelessControllerDropped ==
    Encoded =>
        /\ \A i \in 1..Len(EncodedTrack) :
               EncodedTrack[i].type = "controller" =>
                   "value" \in DOMAIN EncodedTrack[i]
        /\ Len(EncodedTrack) =
               Cardinality({k \in 1..Len(midiEvents) :
                   LET payload == midiEvents[k].event.event
                   IN  \/ payload.type \in {"noteon", "noteoff"}
                       \/ payload.type = "cc" /\ "value" \in DOMAIN payload})
        /\ (\E k \in 1..Len(midiEvents) :
                LET payload == midiEvents[k].event.event
                IN  payload.type = "cc" /\ "value" \notin DOMAIN payload)
               => logMessages # <<>>

\* round((arrival[k] - arrival[k-1]) / 500 * 480) summed over the list's
\* events 2..n: the tick position of event n counted from the first event.
QuantizedPosition(n) ==
    LET upTo[k \in 1..n] ==
            IF k = 1 THEN 0
            ELSE upTo[k - 1]
                 + (2 * (midiEvents[k].time - midiEvents[k - 1].time) * 480
                    + 500) \div (2 * 500)
    IN  upTo[n]

\* The sum of the track's tick deltas up to and including its event i.
TrackPosition(i) ==
    LET upTo[j \in 0..i] ==
            IF j = 0 THEN 0 ELSE upTo[j - 1] + EncodedTrack[j].deltaTime
    IN  upTo[i]

\* C35: the cumulative tick position of each emitted event equals the sum
\* of the quantized gaps from the first buffered event, also when events of
\* an unknown kind between emitted events are dropped: the time of a dropped
\* event goes into the delta of the next emitted one.
C35_DroppedTimeCarried ==
    Encoded =>
        \A i \in 1..Len(EncodedTrack) :
            TrackPosition(i) = QuantizedPosition(EmittedAt[i])

\* C32: no file is encoded or written for a device whose buffer is empty
\* when all recordings are stopped: the serializer and the file saver are
\* not called for it and no file is reported for it; nothing that was
\* handed to the serializer is an empty list.
C32_EmptyBufferSkipped ==
    /\ [](\A f \in flushes : Len(f.midiEvents) > 0)
    /\ [][ stops' # stops =>
             \A d \in DOMAIN recordedEvents :
                 Len(recordedEvents[d]) = 0 =>
                     /\ \A f \in flushes' \ flushes : f.deviceName # d
                     /\ \A w \in writing' \ writing : w.deviceName # d
                     /\ Logged("MIDI file saved for device", d) = 0
                     /\ Logged("Error while saving MIDI file", d) = 0
         ]_vars

\* C32 witness: recordings were stopped while a device that had been flushed
\* before had an empty buffer: there is no file of that stop for it, and the
\* log says that it had no events.
C32_Witness ==
    \E f, g \in flushes :
        /\ f.deviceName # g.deviceName
        /\ g.stop < f.stop
        /\ \A h \in flushes : ~(h.deviceName = g.deviceName /\ h.stop = f.stop)
        /\ \E k \in 1..Len(logMessages) :
               logMessages[k] =
                   LogEntry("No events recorded for device", g.deviceName)

\* C33: no queued entry has attempts >= 10 (the two updates of a failure
\* handler, the count and the removal, happen in one step, so no state lies
\* between them): the queue never keeps an entry that every later sweep
\* would pass over without removing it.
C33_NoEntryAtCeiling ==
    \A k \in 1..Len(pendingUploads) : pendingUploads[k].attempts < MAX_ATTEMPTS

\* The delivery attempts made so far for a queued entry: those counted in
\* attempts (the first upload and every failed retry) and those in flight.
AttemptsMade(upload) ==
    upload.attempts
        + Cardinality({s \in 1..Len(sweeps) : AwaitedId(s) = upload.id})

\* C34: the delivery attempts made for one upload job, the first upload and
\* the retries of all sweeps together, never exceed 10.
C34_AtMostTenAttempts ==
    \A k \in 1..Len(pendingUploads) :
        AttemptsMade(pendingUploads[k]) <= MAX_ATTEMPTS

\* C37: once an id has left the queue, delivered or abandoned, no later
\* step puts an entry with that id back: a sweep that settles adds no entry,
\* also not when its entry was removed after it took its snapshot, and an
\* enqueue uses an id the queue never held.
C37_RemovedStaysRemoved ==
    /\ [](Ids(pendingUploads) \cap (delivered \cup abandoned) = {})
    /\ [][ /\ (Ids(pendingUploads') \ Ids(pendingUploads)) \cap EverQueued = {}
           /\ \A s \in 1..Len(sweeps) : SweepSettles(s) =>
                  Ids(pendingUploads') \subseteq Ids(pendingUploads)
         ]_vars

\* C37 witness: two sweeps held the same entry; it left the queue when the
\* upload of one settled and the other's settled after that, one of the two
\* a failure at the ceiling, and the queue does not hold it.
C37_Witness ==
    \E id \in delivered \cap abandoned : id \notin Ids(pendingUploads)

\* C36: the devices stop sending events (here after MaxEvents events at the
\* latest); then all recordings are stopped and from some time on every
\* device is Idle, or never played, with an empty buffer, and every event
\* received is among those handed to saveRecordedMidiToFile.
C36_EveryEventFlushed ==
    <>[](/\ \A d \in Devices : ~Recording(d) /\ Len(Buffer(d)) = 0
         /\ \A n \in 1..eventCount :
                \E f \in flushes : n \in EventsIn(f.midiEvents))

\* C36 witness: both devices have played, all recordings were stopped, both
\* are Idle with empty buffers and every event received has been flushed.
C36_Witness ==
    /\ stops > 0
    /\ \A d \in Devices : Idle(d) /\ Len(Buffer(d)) = 0
    /\ \A n \in 1..eventCount : \E f \in flushes : n \in EventsIn(f.midiEvents)

====
